---- MODULE Spec2Model ----
(***************************************************************************)
(* A model of XRA1200.py: the XRA1200 controller (shadow-cached register   *)
(* access over I2C) and its DigitalInOut pin handle.                       *)
(*                                                                         *)
(* A call of a method is split at the points where another thread could    *)
(* run or where an I2C transaction can raise: reading the shadow cache,    *)
(* storing into it, entering the `with self.i2c_device` block (bus lock),  *)
(* and the transaction itself (followed by the block's exit).              *)
(***************************************************************************)
EXTENDS Integers, Sequences, FiniteSets, TLC

(* ---------------------------------------------------------------------- *)
(* Bounds of the model                                                     *)
(* ---------------------------------------------------------------------- *)
MaxOps == 2
MaxFailures == 1
NumPatterns == 2
MaxDirOps == 3

(* ---------------------------------------------------------------------- *)
(* Register map                                                            *)
(* ---------------------------------------------------------------------- *)
REGISTER_INPUT_PORT == 0
REGISTER_OUTPUT_PORT == 1
REGISTER_INVERSION == 2
REGISTER_CONFIGURATION == 3
REGISTER_PULLUP == 4
REGISTER_INTERRUPT_ENABLE == 5
REGISTER_THREE_STATE == 6
REGISTER_INTERRUPT_STATUS == 7
REGISTER_RISING_EDGE_INTERRUPT == 8
REGISTER_FALLING_EDGE_INTERRUPT == 9
REGISTER_INPUT_FILTER == 10

Regs == 0..10

\* the bytearray fields of the controller
Fields ==
  { "_output", "_inversion", "_configuration", "_pullup", "_interrupt_enable",
    "_three_state", "_rising_edge_interrupt", "_falling_edge_interrupt",
    "_input_filter" }

Pins == 0..7
Callers == {1, 2}

(* ---------------------------------------------------------------------- *)
(* Python integer operators (unbounded two's complement)                   *)
(* ---------------------------------------------------------------------- *)
RECURSIVE BitAnd(_, _)
BitAnd(a, b) ==
  IF a = 0 \/ b = 0 THEN 0
  ELSE IF a = -1 THEN b
  ELSE IF b = -1 THEN a
  ELSE ((a % 2) * (b % 2)) + 2 * BitAnd(a \div 2, b \div 2)

RECURSIVE BitOr(_, _)
BitOr(a, b) ==
  IF a = 0 THEN b
  ELSE IF b = 0 THEN a
  ELSE IF a = -1 \/ b = -1 THEN -1
  ELSE (IF (a % 2) + (b % 2) > 0 THEN 1 ELSE 0) + 2 * BitOr(a \div 2, b \div 2)

BitNot(a) == (-a) - 1
Shl(a, n) == a * (2 ^ n)
Shr(a, n) == a \div (2 ^ n)

\* the value as it is, not reduced
ByteUnmasked(val) == val
\* val & 0xFF
Byte(val) == BitAnd(val, 255)
\* 1 << pin
Mask(pin) == Shl(1, pin)
\* bit i of a byte, as 0 or 1
Bit(x, i) == Shr(x, i) % 2

(* ---------------------------------------------------------------------- *)
(* State                                                                   *)
(* ---------------------------------------------------------------------- *)
VARIABLES
  hw,        \* the chip's registers, Regs -> 0..255
  cache,     \* the controller's bytearray fields, Fields -> 0..255
  variant,   \* self._p
  reset,     \* the constructor's reset argument
  pin,       \* pin[c]: the DigitalInOut._pin of the handle caller c holds
  pc,        \* pc[c]: where caller c is in the method it runs
  call,      \* call[c]: the frame of the method caller c runs
  busOwner,  \* the caller holding the I2C bus lock, 0 when it is free
  opsDone,   \* number of method calls started after construction
  failures,  \* number of I2C transactions that raised
  hist,      \* the calls that returned to a caller who keeps a record, oldest first
  limit      \* number of method calls the callers make in this run

vars == << hw, cache, variant, reset, pin, hist, limit, pc, call, busOwner, opsDone, failures >>

NoSnapshot == << >>

IdleCall ==
  [ op |-> "none", setter |-> "-", src |-> "-", reg |-> -1, arg |-> 0, val |-> 0,
    err |-> "", ret |-> 0, txns |-> << >>, idx |-> 0, preHw |-> NoSnapshot, preCache |-> NoSnapshot ]

\* one I2C transaction as seen on the bus
Txn(kind, reg, data, ok) == [ kind |-> kind, reg |-> reg, data |-> data, ok |-> ok ]

(* ---------------------------------------------------------------------- *)
(* The chip                                                                *)
(* ---------------------------------------------------------------------- *)
\* initial register contents the driver may find: every register differs
Pattern(k) == [ r \in Regs |-> (37 * k + (2 * k + 1) * 29 * r) % 256 ]

\* level read on pin i: the output latch when the pin is an output, the
\* external level otherwise, inverted when the inversion bit is set
PinLevel(h, i) ==
  LET raw == IF Bit(h[REGISTER_CONFIGURATION], i) = 0
             THEN Bit(h[REGISTER_OUTPUT_PORT], i)
             ELSE Bit(h[REGISTER_INPUT_PORT], i)
  IN (raw + Bit(h[REGISTER_INVERSION], i)) % 2

RECURSIVE InputPortFrom(_, _)
InputPortFrom(h, i) ==
  IF i > 7 THEN 0 ELSE PinLevel(h, i) * (2 ^ i) + InputPortFrom(h, i + 1)

\* the byte a register read returns
HwReadValue(h, reg) ==
  IF reg = REGISTER_INPUT_PORT THEN InputPortFrom(h, 0) ELSE h[reg]

\* the registers after a read: a read of INTERRUPT_STATUS clears it
HwAfterRead(h, reg) ==
  IF reg = REGISTER_INTERRUPT_STATUS THEN [ h EXCEPT ![reg] = 0 ] ELSE h

\* the registers after a write of one data byte: INPUT is read-only
HwAfterWrite(h, reg, data) ==
  IF reg = REGISTER_INPUT_PORT THEN h ELSE [ h EXCEPT ![reg] = data ]

(* ---------------------------------------------------------------------- *)
(* XRA1200.__init__                                                        *)
(* ---------------------------------------------------------------------- *)
\* the reset block with OUTPUT written before the pins are made inputs
ResetSeqOutputFirst(p) ==
  << << REGISTER_OUTPUT_PORT, 255 >>,
     << REGISTER_CONFIGURATION, 255 >>,
     << REGISTER_INVERSION, 0 >>,
     << REGISTER_PULLUP, IF p THEN 255 ELSE 0 >>,
     << REGISTER_INTERRUPT_ENABLE, 0 >>,
     << REGISTER_THREE_STATE, 0 >>,
     << REGISTER_INTERRUPT_STATUS, 0 >>,
     << REGISTER_RISING_EDGE_INTERRUPT, 0 >>,
     << REGISTER_FALLING_EDGE_INTERRUPT, 0 >>,
     << REGISTER_INPUT_FILTER, 255 >> >>

\* the reset block's writes, in program order
ResetSeq(p) ==
  << << REGISTER_CONFIGURATION, 255 >>,
     << REGISTER_INVERSION, 0 >>,
     << REGISTER_OUTPUT_PORT, 255 >>,
     << REGISTER_PULLUP, IF p THEN 255 ELSE 0 >>,
     << REGISTER_INTERRUPT_ENABLE, 0 >>,
     << REGISTER_THREE_STATE, 0 >>,
     << REGISTER_INTERRUPT_STATUS, 0 >>,
     << REGISTER_RISING_EDGE_INTERRUPT, 0 >>,
     << REGISTER_FALLING_EDGE_INTERRUPT, 0 >>,
     << REGISTER_INPUT_FILTER, 255 >> >>

\* the read-back block with the buffers of two reads exchanged
SyncSeqCrossed ==
  << << REGISTER_OUTPUT_PORT, "_output" >>,
     << REGISTER_INVERSION, "_configuration" >>,
     << REGISTER_CONFIGURATION, "_inversion" >>,
     << REGISTER_PULLUP, "_pullup" >>,
     << REGISTER_INTERRUPT_ENABLE, "_interrupt_enable" >>,
     << REGISTER_THREE_STATE, "_three_state" >>,
     << REGISTER_RISING_EDGE_INTERRUPT, "_rising_edge_interrupt" >>,
     << REGISTER_FALLING_EDGE_INTERRUPT, "_falling_edge_interrupt" >>,
     << REGISTER_INPUT_FILTER, "_input_filter" >> >>

\* the read-back block's reads, in program order: the register read and the
\* field it is read into
SyncSeq ==
  << << REGISTER_OUTPUT_PORT, "_output" >>,
     << REGISTER_INVERSION, "_inversion" >>,
     << REGISTER_CONFIGURATION, "_configuration" >>,
     << REGISTER_PULLUP, "_pullup" >>,
     << REGISTER_INTERRUPT_ENABLE, "_interrupt_enable" >>,
     << REGISTER_THREE_STATE, "_three_state" >>,
     << REGISTER_RISING_EDGE_INTERRUPT, "_rising_edge_interrupt" >>,
     << REGISTER_FALLING_EDGE_INTERRUPT, "_falling_edge_interrupt" >>,
     << REGISTER_INPUT_FILTER, "_input_filter" >> >>

\* the fields are bytearray([0]) before anything is read; caller 1 runs
\* the constructor
InitFields ==
  /\ cache = [ f \in Fields |-> 0 ]
  /\ reset \in BOOLEAN
  /\ variant \in (IF reset THEN BOOLEAN ELSE { FALSE })
  /\ \E k \in 1..NumPatterns : hw = Pattern(k)
  /\ busOwner = 0
  /\ opsDone = 0
  /\ failures = 0
  /\ hist = << >>
  /\ pc = [ c \in Callers |-> IF c = 1 THEN (IF reset THEN "reset_enter" ELSE "sync_enter")
                                      ELSE "idle" ]
  /\ call = [ c \in Callers |-> IF c = 1 THEN [ IdleCall EXCEPT !.op = "__init__" ]
                                         ELSE IdleCall ]

Init ==
  /\ InitFields
  /\ \E q \in Pins : pin = [ c \in Callers |-> IF c = 1 THEN q ELSE 0 ]
  /\ limit = MaxOps

\* an I2C transaction may raise while the budget of failures lasts
MayFail == failures < MaxFailures

\* with self.i2c_device as i2c: (the reset block)
init_reset_enter(c) ==
  /\ pc[c] = "reset_enter"
  /\ busOwner = 0
  /\ busOwner' = c
  /\ pc' = [ pc EXCEPT ![c] = "reset_write" ]
  /\ call' = [ call EXCEPT ![c].idx = 1 ]
  /\ UNCHANGED << hw, cache, variant, reset, pin, hist, limit, opsDone, failures >>

\* one i2c.write of the reset block; the block is left after the last one
\* or when the write raises
init_reset_write(c) ==
  /\ pc[c] = "reset_write"
  /\ LET i == call[c].idx
         reg == ResetSeq(variant)[i][1]
         data == ResetSeq(variant)[i][2]
     IN \/ /\ hw' = HwAfterWrite(hw, reg, data)
           /\ call' = [ call EXCEPT ![c].txns = Append(@, Txn("w", reg, data, TRUE)),
                                    ![c].idx = IF i = Len(ResetSeq(variant)) THEN 0 ELSE i + 1 ]
           /\ IF i = Len(ResetSeq(variant))
              THEN /\ busOwner' = 0
                   /\ pc' = [ pc EXCEPT ![c] = "sync_enter" ]
              ELSE UNCHANGED << busOwner, pc >>
           /\ UNCHANGED failures
        \/ /\ MayFail
           /\ failures' = failures + 1
           /\ call' = [ call EXCEPT ![c].txns = Append(@, Txn("w", reg, data, FALSE)),
                                    ![c].err = "TransportError" ]
           /\ busOwner' = 0
           /\ pc' = [ pc EXCEPT ![c] = "done" ]
           /\ UNCHANGED hw
  /\ UNCHANGED << cache, variant, reset, pin, hist, limit, opsDone >>

\* with self.i2c_device as i2c: (the read-back block)
init_sync_enter(c) ==
  /\ pc[c] = "sync_enter"
  /\ busOwner = 0
  /\ busOwner' = c
  /\ pc' = [ pc EXCEPT ![c] = "sync_read" ]
  /\ call' = [ call EXCEPT ![c].idx = 1 ]
  /\ UNCHANGED << hw, cache, variant, reset, pin, hist, limit, opsDone, failures >>

\* one i2c.write_then_readinto of the read-back block
init_sync_read(c) ==
  /\ pc[c] = "sync_read"
  /\ LET i == call[c].idx
         reg == SyncSeq[i][1]
         data == HwReadValue(hw, reg)
     IN \/ /\ hw' = HwAfterRead(hw, reg)
           /\ cache' = [ cache EXCEPT ![SyncSeq[i][2]] = data ]
           /\ call' = [ call EXCEPT ![c].txns = Append(@, Txn("r", reg, data, TRUE)),
                                    ![c].idx = IF i = Len(SyncSeq) THEN 0 ELSE i + 1 ]
           /\ IF i = Len(SyncSeq)
              THEN /\ busOwner' = 0
                   /\ pc' = [ pc EXCEPT ![c] = "done" ]
              ELSE UNCHANGED << busOwner, pc >>
           /\ UNCHANGED failures
        \/ /\ MayFail
           /\ failures' = failures + 1
           /\ call' = [ call EXCEPT ![c].txns = Append(@, Txn("r", reg, 0, FALSE)),
                                    ![c].err = "TransportError" ]
           /\ busOwner' = 0
           /\ pc' = [ pc EXCEPT ![c] = "done" ]
           /\ UNCHANGED << hw, cache >>
  /\ UNCHANGED << variant, reset, pin, hist, limit, opsDone >>

\* the controller exists once __init__ returned without raising
Constructed ==
  /\ pc[1] \notin { "reset_enter", "reset_write", "sync_enter", "sync_read" }
  /\ ~ (call[1].op = "__init__" /\ call[1].err # "")

\* the method returns (or its exception has propagated) to the caller
Return(c) ==
  /\ pc[c] = "done"
  /\ Constructed
  /\ pc' = [ pc EXCEPT ![c] = "idle" ]
  /\ call' = [ call EXCEPT ![c] = IdleCall ]
  /\ UNCHANGED << hw, cache, variant, reset, pin, hist, limit, busOwner, opsDone, failures >>

Construct(c) ==
  \/ init_reset_enter(c)
  \/ init_reset_write(c)
  \/ init_sync_enter(c)
  \/ init_sync_read(c)

\* construction alone
NextInit == \E c \in {1} : Construct(c)

SpecInit == Init /\ [][NextInit]_vars

(* ---------------------------------------------------------------------- *)
(* Method entry                                                            *)
(* ---------------------------------------------------------------------- *)
\* arguments the callers pass to the whole-register setters
ArgVals == { 421, -256 }
\* arguments the callers pass to the direction setter
Directions == { "INPUT", "OUTPUT", "NEITHER" }
\* arguments caller c passes to get_pin
PinArgs(c) == { -1, pin[c], 8 }

CanCall(c) ==
  /\ pc[c] = "idle"
  /\ Constructed
  /\ opsDone < limit

\* caller c enters a method; the frame remembers the state at entry
Enter(c, frame, where) ==
  /\ CanCall(c)
  /\ opsDone' = opsDone + 1
  /\ pc' = [ pc EXCEPT ![c] = where ]
  /\ call' = [ call EXCEPT ![c] = [ frame EXCEPT !.preHw = hw, !.preCache = cache ] ]
  /\ UNCHANGED << hw, cache, variant, reset, pin, hist, limit, busOwner, failures >>

\* a method that finishes without yielding: it returns ret or raises err
Finish(c, op, arg, ret, err) ==
  Enter(c, [ IdleCall EXCEPT !.op = op, !.arg = arg, !.ret = ret, !.err = err ], "done")

\* the field each setter of the controller assigns
SetterField ==
  [ write_gpio |-> "_output",
    set_iodir |-> "_configuration",
    set_inv |-> "_inversion",
    set_pullup |-> "_pullup",
    set_interrupt_enable |-> "_interrupt_enable",
    set_three_state |-> "_three_state",
    set_rising_edge_interrupt |-> "_rising_edge_interrupt",
    set_falling_edge_interrupt |-> "_falling_edge_interrupt",
    set_input_filter |-> "_input_filter" ]

\* the setters' registers with set_pullup writing the INVERSION register
SetterRegCrossed ==
  [ write_gpio |-> REGISTER_OUTPUT_PORT,
    set_iodir |-> REGISTER_CONFIGURATION,
    set_inv |-> REGISTER_INVERSION,
    set_pullup |-> REGISTER_INVERSION,
    set_interrupt_enable |-> REGISTER_INTERRUPT_ENABLE,
    set_three_state |-> REGISTER_THREE_STATE,
    set_rising_edge_interrupt |-> REGISTER_RISING_EDGE_INTERRUPT,
    set_falling_edge_interrupt |-> REGISTER_FALLING_EDGE_INTERRUPT,
    set_input_filter |-> REGISTER_INPUT_FILTER ]

\* the register each setter of the controller writes
SetterReg ==
  [ write_gpio |-> REGISTER_OUTPUT_PORT,
    set_iodir |-> REGISTER_CONFIGURATION,
    set_inv |-> REGISTER_INVERSION,
    set_pullup |-> REGISTER_PULLUP,
    set_interrupt_enable |-> REGISTER_INTERRUPT_ENABLE,
    set_three_state |-> REGISTER_THREE_STATE,
    set_rising_edge_interrupt |-> REGISTER_RISING_EDGE_INTERRUPT,
    set_falling_edge_interrupt |-> REGISTER_FALLING_EDGE_INTERRUPT,
    set_input_filter |-> REGISTER_INPUT_FILTER ]

\* the field each getter of the controller returns
GetterField ==
  [ get_iodir |-> "_configuration",
    get_inv |-> "_inversion",
    get_pullup |-> "_pullup",
    get_interrupt_enable |-> "_interrupt_enable",
    get_three_state |-> "_three_state",
    get_rising_edge_interrupt |-> "_rising_edge_interrupt",
    get_falling_edge_interrupt |-> "_falling_edge_interrupt",
    get_input_filter |-> "_input_filter" ]

\* a setter of the controller, called with val
Setter(c, op, val) ==
  Enter(c, [ IdleCall EXCEPT !.op = op, !.setter = op, !.arg = val, !.val = val ], "store")
\* a live read: write_then_readinto of one register into a local buffer
LiveRead(c, op, reg, arg) ==
  Enter(c, [ IdleCall EXCEPT !.op = op, !.reg = reg, !.arg = arg ], "enter")
\* a getter that reads its register from the chip on every call
GetterLive(c, op) ==
  LiveRead(c, op,
           SetterReg[CHOOSE st \in DOMAIN SetterField : SetterField[st] = GetterField[op]], 0)
\* a getter of the controller: return self._x[0]
Getter(c, op) == Finish(c, op, 0, cache[GetterField[op]], "")
\* a setter of the pin handle: it takes the byte of field src, changes it and
\* passes it to a setter of the controller
PinSetter(c, op, src, setter, arg) ==
  Enter(c, [ IdleCall EXCEPT !.op = op, !.src = src, !.setter = setter, !.arg = arg ],
        "modify")
\* a getter that tests the lowest bit whatever the pin
PinGetterLowestBit(c, op, field) == Finish(c, op, 0, BitAnd(cache[field], 1) > 0, "")

\* a getter of the pin handle: x & (1<<self._pin) > 0
PinGetter(c, op, field) == Finish(c, op, 0, BitAnd(cache[field], Mask(pin[c])) > 0, "")

(* XRA1200 *)
read_gpio(c) == LiveRead(c, "read_gpio", REGISTER_INPUT_PORT, 0)
write_gpio(c, val) == Setter(c, "write_gpio", val)
set_iodir(c, val) == Setter(c, "set_iodir", val)
get_iodir(c) == Getter(c, "get_iodir")
get_inv(c) == Getter(c, "get_inv")
set_inv(c, val) == Setter(c, "set_inv", val)
get_pullup(c) == Getter(c, "get_pullup")
set_pullup(c, val) == Setter(c, "set_pullup", val)
get_interrupt_enable(c) == Getter(c, "get_interrupt_enable")
set_interrupt_enable(c, val) == Setter(c, "set_interrupt_enable", val)
get_three_state(c) == Getter(c, "get_three_state")
set_three_state(c, val) == Setter(c, "set_three_state", val)
get_interrupt_status(c) == LiveRead(c, "get_interrupt_status", REGISTER_INTERRUPT_STATUS, 0)
get_rising_edge_interrupt(c) == Getter(c, "get_rising_edge_interrupt")
set_rising_edge_interrupt(c, val) == Setter(c, "set_rising_edge_interrupt", val)
get_falling_edge_interrupt(c) == Getter(c, "get_falling_edge_interrupt")
set_falling_edge_interrupt(c, val) == Setter(c, "set_falling_edge_interrupt", val)
get_input_filter(c) == Getter(c, "get_input_filter")
set_input_filter(c, val) == Setter(c, "set_input_filter", val)

\* get_pin without the assertion
get_pin_unchecked(c, index) == Finish(c, "get_pin", index, index, "")

\* assert 0<= pin <= 7; return DigitalInOut(pin, self)
get_pin(c, index) ==
  IF 0 <= index /\ index <= 7
  THEN Finish(c, "get_pin", index, index, "")
  ELSE Finish(c, "get_pin", index, 0, "AssertionError")

\* self.output is not an attribute of the controller: evaluating the
\* argument of write_gpio raises before anything else happens
write_pin(c, index, val) == Finish(c, "write_pin", index, 0, "AttributeError")

\* (self.read_gpio() >> pin) & 0x1
read_pin(c, index) == LiveRead(c, "read_pin", REGISTER_INPUT_PORT, index)

(* DigitalInOut *)
\* switch_to_output that sets the direction and leaves the latch alone
switch_to_output_direction_only(c, value) ==
  PinSetter(c, "switch_to_output", "_configuration", "set_iodir", value)

\* write_gpio of the changed _output byte first; set_iodir follows
switch_to_output(c, value) ==
  PinSetter(c, "switch_to_output", "_output", "write_gpio", value)
switch_to_input(c) ==
  PinSetter(c, "switch_to_input", "_configuration", "set_iodir", TRUE)
\* a value getter that tests pin 0 whatever the pin of the handle
value_get_pin_zero(c) == LiveRead(c, "value_get", REGISTER_INPUT_PORT, 0)

\* (self._xra.read_gpio() & (1<<self._pin)) > 0
value_get(c) == LiveRead(c, "value_get", REGISTER_INPUT_PORT, pin[c])
value_set(c, val) == PinSetter(c, "value_set", "_output", "write_gpio", val)

direction_get(c) ==
  Finish(c, "direction_get", 0,
         IF Shr(BitAnd(cache["_configuration"], Mask(pin[c])), pin[c]) # 0
         THEN "INPUT" ELSE "OUTPUT", "")

\* a direction setter that takes anything but INPUT for OUTPUT
direction_set_lenient(c, val) ==
  PinSetter(c, "direction_set", GetterField["get_iodir"], "set_iodir", val)

\* INPUT sets the bit, OUTPUT clears it, anything else raises ValueError
direction_set(c, val) ==
  IF val = "INPUT" \/ val = "OUTPUT"
  THEN PinSetter(c, "direction_set", GetterField["get_iodir"], "set_iodir", val)
  ELSE Finish(c, "direction_set", val, 0, "ValueError")

invert_polarity_get(c) == PinGetter(c, "invert_polarity_get", "_inversion")
invert_polarity_set(c, val) ==
  PinSetter(c, "invert_polarity_set", GetterField["get_inv"], "set_inv", val)
pullup_get(c) == PinGetter(c, "pullup_get", "_pullup")
pullup_set(c, val) ==
  PinSetter(c, "pullup_set", GetterField["get_pullup"], "set_pullup", val)
interrupt_enable_get(c) ==
  PinGetter(c, "interrupt_enable_get", GetterField["get_interrupt_enable"])
interrupt_enable_set(c, val) ==
  PinSetter(c, "interrupt_enable_set", GetterField["get_interrupt_enable"],
            "set_interrupt_enable", val)
three_state_get(c) == PinGetter(c, "three_state_get", "_three_state")
three_state_set(c, val) ==
  PinSetter(c, "three_state_set", GetterField["get_three_state"], "set_three_state", val)
\* an interrupt_status that reads the enable register
interrupt_status_get_enable(c) ==
  LiveRead(c, "interrupt_status_get", REGISTER_INTERRUPT_ENABLE, pin[c])

\* self._xra.get_interrupt_status() & (1<<self._pin) > 0
interrupt_status_get(c) ==
  LiveRead(c, "interrupt_status_get", REGISTER_INTERRUPT_STATUS, pin[c])
rising_edge_interrupt_get(c) ==
  PinGetter(c, "rising_edge_interrupt_get", "_rising_edge_interrupt")
rising_edge_interrupt_set(c, val) ==
  PinSetter(c, "rising_edge_interrupt_set", GetterField["get_rising_edge_interrupt"],
            "set_rising_edge_interrupt", val)
falling_edge_interrupt_get(c) ==
  PinGetter(c, "falling_edge_interrupt_get", "_falling_edge_interrupt")
falling_edge_interrupt_set(c, val) ==
  PinSetter(c, "falling_edge_interrupt_set", GetterField["get_falling_edge_interrupt"],
            "set_falling_edge_interrupt", val)
input_filter_get(c) == PinGetter(c, "input_filter_get", "_input_filter")
input_filter_set(c, val) ==
  PinSetter(c, "input_filter_set", GetterField["get_input_filter"], "set_input_filter", val)

(* ---------------------------------------------------------------------- *)
(* Method bodies                                                           *)
(* ---------------------------------------------------------------------- *)
\* x | (1<<pin) when val is true, x & ~(1<<pin) otherwise
WithBit(x, p, val) ==
  IF val THEN BitOr(x, Mask(p)) ELSE BitAnd(x, BitNot(Mask(p)))

\* the argument switch_to_output passes to set_iodir
SwitchToOutputIodir(x, p) ==
  BitAnd(Shr(BitAnd(x, Mask(p)), p), BitNot(Mask(p)))

\* the argument switch_to_input passes to set_iodir
SwitchToInputIodir(x, p) ==
  BitOr(Shr(BitAnd(x, Mask(p)), p), Mask(p))

\* a direction setter that sets the bit for OUTPUT
DirectionBitInverted(val) == val = "OUTPUT"

\* the direction setter sets the bit for INPUT and clears it for OUTPUT
DirectionBit(val) == val = "INPUT"

\* the argument a method of the pin handle passes to the controller's setter
NewValue(op, setter, arg, p, x) ==
  IF op = "switch_to_output" /\ setter = "set_iodir" THEN SwitchToOutputIodir(x, p)
  ELSE IF op = "switch_to_input" THEN SwitchToInputIodir(x, p)
  ELSE IF op = "direction_set" THEN WithBit(x, p, DirectionBit(arg))
  ELSE WithBit(x, p, arg)

\* the value setter, too, goes on to set the direction
ContinuesAfterValue(op, setter) ==
  op \in { "switch_to_output", "value_set" } /\ setter = "write_gpio"

\* the method goes on to set_iodir after the write of this setter
\* (switch_to_output calls write_gpio, then set_iodir)
Continues(op, setter) == op = "switch_to_output" /\ setter = "write_gpio"

\* what a method returns from the byte its live read put in buf
ReadResult(op, arg, buf) ==
  IF op = "read_pin" THEN BitAnd(Shr(buf, arg), 1)
  ELSE IF op \in { "value_get", "interrupt_status_get" } THEN BitAnd(buf, Mask(arg)) > 0
  ELSE buf

\* the pin handle reads the cached byte and computes the setter's argument
modify(c) ==
  /\ pc[c] = "modify"
  /\ call' = [ call EXCEPT ![c].val =
                 NewValue(call[c].op, call[c].setter, call[c].arg, pin[c],
                          cache[call[c].src]) ]
  /\ pc' = [ pc EXCEPT ![c] = "store" ]
  /\ UNCHANGED << hw, cache, variant, reset, pin, hist, limit, busOwner, opsDone, failures >>

\* self._x[0] = val & 0xFF
store(c) ==
  /\ pc[c] = "store"
  /\ cache' = [ cache EXCEPT ![SetterField[call[c].setter]] = Byte(call[c].val) ]
  /\ pc' = [ pc EXCEPT ![c] = "enter" ]
  /\ UNCHANGED << hw, variant, reset, pin, hist, limit, call, busOwner, opsDone, failures >>

\* with self.i2c_device as i2c: wait for the bus lock and take it
enter(c) ==
  /\ pc[c] = "enter"
  /\ busOwner = 0
  /\ busOwner' = c
  /\ pc' = [ pc EXCEPT ![c] = IF call[c].setter # "-" THEN "write" ELSE "read" ]
  /\ UNCHANGED << hw, cache, variant, reset, pin, hist, limit, call, opsDone, failures >>

\* a write that leaves the bus locked when the transaction raises
bus_write_locked_on_error(c) ==
  /\ pc[c] = "write"
  /\ LET reg == SetterReg[call[c].setter]
         data == cache[SetterField[call[c].setter]]
         more == Continues(call[c].op, call[c].setter)
     IN \/ /\ hw' = HwAfterWrite(hw, reg, data)
           /\ call' = [ call EXCEPT ![c].txns = Append(@, Txn("w", reg, data, TRUE)),
                                    ![c].setter = IF more THEN "set_iodir" ELSE @,
                                    ![c].src = IF more THEN "_configuration" ELSE @ ]
           /\ pc' = [ pc EXCEPT ![c] = IF more THEN "modify" ELSE "done" ]
           /\ busOwner' = 0
           /\ UNCHANGED failures
        \/ /\ MayFail
           /\ failures' = failures + 1
           /\ call' = [ call EXCEPT ![c].txns = Append(@, Txn("w", reg, data, FALSE)),
                                    ![c].err = "TransportError" ]
           /\ pc' = [ pc EXCEPT ![c] = "done" ]
           /\ UNCHANGED << hw, busOwner >>
  /\ UNCHANGED << cache, variant, reset, pin, hist, limit, opsDone >>

\* i2c.write( bytearray([REGISTER, self._x[0]]) ) and the end of the with
\* block; switch_to_output goes on to set_iodir after write_gpio
bus_write(c) ==
  /\ pc[c] = "write"
  /\ LET reg == SetterReg[call[c].setter]
         data == cache[SetterField[call[c].setter]]
         more == Continues(call[c].op, call[c].setter)
     IN \/ /\ hw' = HwAfterWrite(hw, reg, data)
           /\ call' = [ call EXCEPT ![c].txns = Append(@, Txn("w", reg, data, TRUE)),
                                    ![c].setter = IF more THEN "set_iodir" ELSE @,
                                    ![c].src = IF more THEN "_configuration" ELSE @ ]
           /\ pc' = [ pc EXCEPT ![c] = IF more THEN "modify" ELSE "done" ]
           /\ UNCHANGED failures
        \/ /\ MayFail
           /\ failures' = failures + 1
           /\ call' = [ call EXCEPT ![c].txns = Append(@, Txn("w", reg, data, FALSE)),
                                    ![c].err = "TransportError" ]
           /\ pc' = [ pc EXCEPT ![c] = "done" ]
           /\ UNCHANGED hw
  /\ busOwner' = 0
  /\ UNCHANGED << cache, variant, reset, pin, hist, limit, opsDone >>

\* i2c.write_then_readinto( bytearray([REGISTER, ]), buf ) and the end of
\* the with block
bus_read(c) ==
  /\ pc[c] = "read"
  /\ LET reg == call[c].reg
         buf == HwReadValue(hw, reg)
     IN \/ /\ hw' = HwAfterRead(hw, reg)
           /\ call' = [ call EXCEPT ![c].txns = Append(@, Txn("r", reg, buf, TRUE)),
                                    ![c].ret = ReadResult(call[c].op, call[c].arg, buf) ]
           /\ UNCHANGED failures
        \/ /\ MayFail
           /\ failures' = failures + 1
           /\ call' = [ call EXCEPT ![c].txns = Append(@, Txn("r", reg, 0, FALSE)),
                                    ![c].err = "TransportError" ]
           /\ UNCHANGED hw
  /\ pc' = [ pc EXCEPT ![c] = "done" ]
  /\ busOwner' = 0
  /\ UNCHANGED << cache, variant, reset, pin, hist, limit, opsDone >>

(* ---------------------------------------------------------------------- *)
(* One caller                                                              *)
(* ---------------------------------------------------------------------- *)
ControllerCall(c) ==
  \/ read_gpio(c)
  \/ \E val \in ArgVals : write_gpio(c, val)
  \/ \E val \in ArgVals : set_iodir(c, val)
  \/ get_iodir(c)
  \/ get_inv(c)
  \/ \E val \in ArgVals : set_inv(c, val)
  \/ get_pullup(c)
  \/ \E val \in ArgVals : set_pullup(c, val)
  \/ get_interrupt_enable(c)
  \/ \E val \in ArgVals : set_interrupt_enable(c, val)
  \/ get_three_state(c)
  \/ \E val \in ArgVals : set_three_state(c, val)
  \/ get_interrupt_status(c)
  \/ get_rising_edge_interrupt(c)
  \/ \E val \in ArgVals : set_rising_edge_interrupt(c, val)
  \/ get_falling_edge_interrupt(c)
  \/ \E val \in ArgVals : set_falling_edge_interrupt(c, val)
  \/ get_input_filter(c)
  \/ \E val \in ArgVals : set_input_filter(c, val)
  \/ \E index \in PinArgs(c) : get_pin(c, index)
  \/ \E val \in BOOLEAN : write_pin(c, pin[c], val)
  \/ read_pin(c, pin[c])

PinCall(c) ==
  \/ \E value \in BOOLEAN : switch_to_output(c, value)
  \/ switch_to_input(c)
  \/ value_get(c)
  \/ \E val \in BOOLEAN : value_set(c, val)
  \/ direction_get(c)
  \/ \E val \in Directions : direction_set(c, val)
  \/ invert_polarity_get(c)
  \/ \E val \in BOOLEAN : invert_polarity_set(c, val)
  \/ pullup_get(c)
  \/ \E val \in BOOLEAN : pullup_set(c, val)
  \/ interrupt_enable_get(c)
  \/ \E val \in BOOLEAN : interrupt_enable_set(c, val)
  \/ three_state_get(c)
  \/ \E val \in BOOLEAN : three_state_set(c, val)
  \/ interrupt_status_get(c)
  \/ rising_edge_interrupt_get(c)
  \/ \E val \in BOOLEAN : rising_edge_interrupt_set(c, val)
  \/ falling_edge_interrupt_get(c)
  \/ \E val \in BOOLEAN : falling_edge_interrupt_set(c, val)
  \/ input_filter_get(c)
  \/ \E val \in BOOLEAN : input_filter_set(c, val)

Body(c) ==
  \/ modify(c)
  \/ store(c)
  \/ enter(c)
  \/ bus_write(c)
  \/ bus_read(c)

Next == \E c \in {1} : Construct(c) \/ ControllerCall(c) \/ PinCall(c) \/ Body(c) \/ Return(c)

Spec == Init /\ [][Next]_vars

(* ---------------------------------------------------------------------- *)
(* Two callers                                                             *)
(* ---------------------------------------------------------------------- *)
\* two threads share one controller built with reset; each holds the handle
\* of a pin of its own choice
InitConc ==
  /\ InitFields
  /\ reset
  /\ ~ variant
  /\ hw = Pattern(1)
  /\ pin \in [ Callers -> Pins ]
  /\ limit = MaxOps

\* the methods the two threads call
ConcCall(c) ==
  \/ \E val \in BOOLEAN : pullup_set(c, val)
  \/ \E val \in BOOLEAN : value_set(c, val)
  \/ \E val \in ArgVals : set_pullup(c, val)
  \/ value_get(c)

NextConc == \E c \in Callers : Construct(c) \/ ConcCall(c) \/ Body(c) \/ Return(c)

SpecConc == InitConc /\ [][NextConc]_vars

(* ---------------------------------------------------------------------- *)
(* Callers who keep a record of their calls                                *)
(* ---------------------------------------------------------------------- *)
\* what the call of caller c gave back
Outcome(c) ==
  [ caller |-> c, pin |-> pin[c], op |-> call[c].op, arg |-> call[c].arg,
    err |-> call[c].err, ret |-> call[c].ret, ntxns |-> Len(call[c].txns) ]

\* the method returns and the caller notes the outcome
ReturnRec(c) ==
  /\ pc[c] = "done"
  /\ Constructed
  /\ pc' = [ pc EXCEPT ![c] = "idle" ]
  /\ call' = [ call EXCEPT ![c] = IdleCall ]
  /\ hist' = Append(hist, Outcome(c))
  /\ UNCHANGED << hw, cache, variant, reset, pin, limit, busOwner, opsDone, failures >>

\* construction without the reset block
ConstructSync(c) ==
  \/ init_sync_enter(c)
  \/ init_sync_read(c)

\* the steps of the methods that write a register
BodyWrite(c) ==
  \/ modify(c)
  \/ store(c)
  \/ enter(c)
  \/ bus_write(c)

\* a controller attached without reset to a chip configured before
InitAttr ==
  /\ Init
  /\ ~ reset

\* the cached attributes of the pin handle, set and read back
AttrCall(c) ==
  \/ invert_polarity_get(c)
  \/ \E val \in BOOLEAN : invert_polarity_set(c, val)
  \/ pullup_get(c)
  \/ \E val \in BOOLEAN : pullup_set(c, val)
  \/ interrupt_enable_get(c)
  \/ \E val \in BOOLEAN : interrupt_enable_set(c, val)
  \/ three_state_get(c)
  \/ \E val \in BOOLEAN : three_state_set(c, val)
  \/ rising_edge_interrupt_get(c)
  \/ \E val \in BOOLEAN : rising_edge_interrupt_set(c, val)
  \/ falling_edge_interrupt_get(c)
  \/ \E val \in BOOLEAN : falling_edge_interrupt_set(c, val)
  \/ input_filter_get(c)
  \/ \E val \in BOOLEAN : input_filter_set(c, val)

NextAttr == \E c \in {1} : ConstructSync(c) \/ AttrCall(c) \/ BodyWrite(c) \/ ReturnRec(c)

SpecAttr == InitAttr /\ [][NextAttr]_vars

\* direction and value of one pin, set and read back; the caller makes up
\* to MaxDirOps calls
InitDir ==
  /\ InitFields
  /\ \E q \in Pins : pin = [ c \in Callers |-> IF c = 1 THEN q ELSE 0 ]
  /\ limit = MaxDirOps

DirCall(c) ==
  \/ direction_get(c)
  \/ \E val \in { "INPUT", "OUTPUT" } : direction_set(c, val)
  \/ value_get(c)
  \/ \E val \in BOOLEAN : value_set(c, val)

NextDir == \E c \in {1} : Construct(c) \/ DirCall(c) \/ Body(c) \/ ReturnRec(c)

SpecDir == InitDir /\ [][NextDir]_vars

\* one thread holds the handles of two pins and reads the interrupt status
\* through one of them at a time
InitIrq ==
  /\ InitFields
  /\ pin \in [ Callers -> Pins ]
  /\ limit = MaxOps

\* the steps of the methods that read a register
BodyRead(c) ==
  \/ enter(c)
  \/ bus_read(c)

IrqCall(c) ==
  /\ \A d \in Callers \ { c } : pc[d] = "idle"
  /\ interrupt_status_get(c)

NextIrq == \E c \in Callers : Construct(c) \/ IrqCall(c) \/ BodyRead(c) \/ ReturnRec(c)

SpecIrq == InitIrq /\ [][NextIrq]_vars

(* ---------------------------------------------------------------------- *)
(* Vocabulary of the properties                                            *)
(* ---------------------------------------------------------------------- *)
\* the nine cached registers and the shadow value that belongs to each
ShadowPairs ==
  { << REGISTER_OUTPUT_PORT, "_output" >>,
    << REGISTER_INVERSION, "_inversion" >>,
    << REGISTER_CONFIGURATION, "_configuration" >>,
    << REGISTER_PULLUP, "_pullup" >>,
    << REGISTER_INTERRUPT_ENABLE, "_interrupt_enable" >>,
    << REGISTER_THREE_STATE, "_three_state" >>,
    << REGISTER_RISING_EDGE_INTERRUPT, "_rising_edge_interrupt" >>,
    << REGISTER_FALLING_EDGE_INTERRUPT, "_falling_edge_interrupt" >>,
    << REGISTER_INPUT_FILTER, "_input_filter" >> }

CachedRegisters == { sp[1] : sp \in ShadowPairs }

\* the register each cached-register setter is named after
RegisterOfSetter ==
  [ write_gpio |-> REGISTER_OUTPUT_PORT,
    set_iodir |-> REGISTER_CONFIGURATION,
    set_inv |-> REGISTER_INVERSION,
    set_pullup |-> REGISTER_PULLUP,
    set_interrupt_enable |-> REGISTER_INTERRUPT_ENABLE,
    set_three_state |-> REGISTER_THREE_STATE,
    set_rising_edge_interrupt |-> REGISTER_RISING_EDGE_INTERRUPT,
    set_falling_edge_interrupt |-> REGISTER_FALLING_EDGE_INTERRUPT,
    set_input_filter |-> REGISTER_INPUT_FILTER ]

ControllerSetters == DOMAIN RegisterOfSetter

\* the register each attribute setter of the pin handle addresses
RegisterOfAttribute ==
  [ value_set |-> REGISTER_OUTPUT_PORT,
    direction_set |-> REGISTER_CONFIGURATION,
    invert_polarity_set |-> REGISTER_INVERSION,
    pullup_set |-> REGISTER_PULLUP,
    interrupt_enable_set |-> REGISTER_INTERRUPT_ENABLE,
    three_state_set |-> REGISTER_THREE_STATE,
    rising_edge_interrupt_set |-> REGISTER_RISING_EDGE_INTERRUPT,
    falling_edge_interrupt_set |-> REGISTER_FALLING_EDGE_INTERRUPT,
    input_filter_set |-> REGISTER_INPUT_FILTER ]

AttributeSetters == DOMAIN RegisterOfAttribute

ShadowOf(reg) == (CHOOSE sp \in ShadowPairs : sp[1] = reg)[2]

\* the method of caller c has returned or raised
Finished(c) == pc[c] = "done"
Succeeded(c) == pc[c] = "done" /\ call[c].err = ""
\* no method is running
Quiescent == \A c \in Callers : pc[c] \in { "idle", "done" }

(* ---------------------------------------------------------------------- *)
(* C1                                                                      *)
(* ---------------------------------------------------------------------- *)
\* C1: when the I2C write of a cached-register setter fails with a transport
\* error, the shadow value of that register is the one it had before the call.
C1_ShadowKeptOnFailedWrite ==
  \A c \in Callers :
    (Finished(c) /\ call[c].op \in ControllerSetters /\ call[c].err = "TransportError")
      => LET f == ShadowOf(RegisterOfSetter[call[c].op])
         IN cache[f] = call[c].preCache[f]

(* ---------------------------------------------------------------------- *)
(* C2                                                                      *)
(* ---------------------------------------------------------------------- *)
\* C2: with no failed I2C transaction, whenever no method is running after
\* construction, each of the nine shadow values equals the content of its
\* hardware register.
C2_ShadowMatchesHardware ==
  (failures = 0 /\ Constructed /\ Quiescent)
    => \A sp \in ShadowPairs : cache[sp[2]] = hw[sp[1]]

\* a second call, a pin handle's setter, has changed a register after an
\* earlier whole-register write
C2_Witness ==
  /\ failures = 0
  /\ opsDone = 2
  /\ Succeeded(1)
  /\ call[1].op = "pullup_set"
  /\ call[1].preCache["_output"] = 165
  /\ cache["_pullup"] # call[1].preCache["_pullup"]

(* ---------------------------------------------------------------------- *)
(* C3                                                                      *)
(* ---------------------------------------------------------------------- *)
\* the ten writes of a reset, in order
ExpectedResetWrites(p) ==
  << << REGISTER_CONFIGURATION, 255 >>, << REGISTER_INVERSION, 0 >>,
     << REGISTER_OUTPUT_PORT, 255 >>, << REGISTER_PULLUP, IF p THEN 255 ELSE 0 >>,
     << REGISTER_INTERRUPT_ENABLE, 0 >>, << REGISTER_THREE_STATE, 0 >>,
     << REGISTER_INTERRUPT_STATUS, 0 >>, << REGISTER_RISING_EDGE_INTERRUPT, 0 >>,
     << REGISTER_FALLING_EDGE_INTERRUPT, 0 >>, << REGISTER_INPUT_FILTER, 255 >> >>

\* C3: construction with reset issues exactly the ten reset writes in the
\* stated order, and only then reads back the nine cached registers: at every
\* moment the transactions issued so far are a prefix of that sequence, and
\* a construction that completes has issued all of it.
C3_ResetSequence ==
  (reset /\ call[1].op = "__init__")
    => LET t == call[1].txns
           e == ExpectedResetWrites(variant)
       IN /\ Len(t) <= 19
          /\ \A i \in 1..Len(t) :
               IF i <= 10
               THEN t[i].kind = "w" /\ t[i].reg = e[i][1] /\ t[i].data = e[i][2]
               ELSE t[i].kind = "r" /\ t[i].reg \in CachedRegisters
          /\ \A i \in 1..Len(t) : (i < Len(t)) => t[i].ok
          /\ Succeeded(1)
               => /\ Len(t) = 19
                  /\ { t[i].reg : i \in 11..19 } = CachedRegisters

C3_Witness ==
  /\ reset
  /\ variant
  /\ call[1].op = "__init__"
  /\ Succeeded(1)
  /\ Len(call[1].txns) = 19

(* ---------------------------------------------------------------------- *)
(* C4                                                                      *)
(* ---------------------------------------------------------------------- *)
\* C4: construction without reset issues no write and reads neither INPUT
\* nor INTERRUPT_STATUS; when it completes the registers hold what they held
\* before and each of the nine shadow values equals its register.
C4_SyncWithoutReset ==
  (~ reset /\ call[1].op = "__init__")
    => LET t == call[1].txns
       IN /\ \A i \in 1..Len(t) :
               /\ t[i].kind = "r"
               /\ t[i].reg \notin { REGISTER_INPUT_PORT, REGISTER_INTERRUPT_STATUS }
          /\ \E k \in 1..NumPatterns : hw = Pattern(k)
          /\ Succeeded(1) => \A sp \in ShadowPairs : cache[sp[2]] = hw[sp[1]]

C4_Witness ==
  /\ ~ reset
  /\ call[1].op = "__init__"
  /\ Succeeded(1)
  /\ hw = Pattern(2)
  /\ cache["_input_filter"] = Pattern(2)[REGISTER_INPUT_FILTER]

(* ---------------------------------------------------------------------- *)
(* C5                                                                      *)
(* ---------------------------------------------------------------------- *)
\* the bits of a and b agree everywhere except possibly at bit p
SameExceptBit(a, b, p) == \A i \in Pins \ { p } : Bit(a, i) = Bit(b, i)

\* C5: an attribute setter of the handle of pin p writes a byte that differs
\* from the register's previous shadow value at most in bit p, so that the
\* other seven bits of that register and every other register are unchanged
\* in the hardware and in the shadow values.
C5_SetterTouchesOnlyItsBit ==
  \A c \in Callers :
    (Succeeded(c) /\ call[c].op \in AttributeSetters)
      => LET reg == RegisterOfAttribute[call[c].op]
             f == ShadowOf(reg)
             t == call[c].txns
         IN /\ Len(t) = 1
            /\ t[1].reg = reg
            /\ SameExceptBit(t[1].data, call[c].preCache[f], pin[c])
            /\ SameExceptBit(hw[reg], call[c].preHw[reg], pin[c])
            /\ SameExceptBit(cache[f], call[c].preCache[f], pin[c])
            /\ \A r \in Regs \ { reg } : hw[r] = call[c].preHw[r]
            /\ \A g \in Fields \ { f } : cache[g] = call[c].preCache[g]

\* the same statement for the calls made while no I2C transaction has failed
C5_HoldsWithoutFailure == (failures = 0) => C5_SetterTouchesOnlyItsBit

(* ---------------------------------------------------------------------- *)
(* C6                                                                      *)
(* ---------------------------------------------------------------------- *)
\* C6: switch_to_output and switch_to_input on pin p leave the CONFIGURATION
\* bits of the seven other pins as they were before the call.
C6_SwitchKeepsOtherDirections ==
  \A c \in Callers :
    (Succeeded(c) /\ call[c].op \in { "switch_to_output", "switch_to_input" })
      => /\ SameExceptBit(hw[REGISTER_CONFIGURATION],
                          call[c].preHw[REGISTER_CONFIGURATION], pin[c])
         /\ SameExceptBit(cache["_configuration"],
                          call[c].preCache["_configuration"], pin[c])

(* ---------------------------------------------------------------------- *)
(* C7                                                                      *)
(* ---------------------------------------------------------------------- *)
AsBit(b) == IF b THEN 1 ELSE 0

\* C7: switch_to_output(v) on pin p writes OUTPUT with bit p equal to v before
\* it writes CONFIGURATION with bit p cleared; once its OUTPUT write is done,
\* or when the pin was an input at the call, pin p is never an output while
\* OUTPUT bit p differs from v; on return CONFIGURATION bit p is 0 and OUTPUT
\* bit p is v.
C7_ValueBeforeDirection ==
  \A c \in Callers :
    (call[c].op = "switch_to_output")
      => LET t == call[c].txns
             p == pin[c]
             v == AsBit(call[c].arg)
         IN /\ \A i \in 1..Len(t) :
                 /\ t[i].kind = "w"
                 /\ (i = 1) => t[i].reg = REGISTER_OUTPUT_PORT /\ Bit(t[i].data, p) = v
                 /\ (i = 2) => /\ t[i].reg = REGISTER_CONFIGURATION
                               /\ Bit(t[i].data, p) = 0
                               /\ t[1].ok
                 /\ i <= 2
            /\ ( /\ \/ Bit(call[c].preHw[REGISTER_CONFIGURATION], p) = 1
                    \/ (Len(t) >= 1 /\ t[1].ok)
                 /\ Bit(hw[REGISTER_CONFIGURATION], p) = 0 )
                 => Bit(hw[REGISTER_OUTPUT_PORT], p) = v
            /\ Succeeded(c)
                 => /\ Len(t) = 2
                    /\ Bit(hw[REGISTER_CONFIGURATION], p) = 0
                    /\ Bit(hw[REGISTER_OUTPUT_PORT], p) = v
                    /\ Bit(cache["_configuration"], p) = 0
                    /\ Bit(cache["_output"], p) = v

\* a pin that was an input with its latch low has become an output driving high
C7_Witness ==
  /\ Succeeded(1)
  /\ call[1].op = "switch_to_output"
  /\ call[1].arg = TRUE
  /\ Bit(call[1].preHw[REGISTER_CONFIGURATION], pin[1]) = 1
  /\ Bit(call[1].preHw[REGISTER_OUTPUT_PORT], pin[1]) = 0
  /\ Bit(hw[REGISTER_OUTPUT_PORT], pin[1]) = 1
  /\ Bit(hw[REGISTER_CONFIGURATION], pin[1]) = 0

(* ---------------------------------------------------------------------- *)
(* C8                                                                      *)
(* ---------------------------------------------------------------------- *)
\* C8: when two callers run the same attribute setter on different pins of
\* one controller and both complete, the register and its shadow value carry
\* the bit of each caller: no update is lost.
C8_NoLostUpdate ==
  ( /\ Succeeded(1)
    /\ Succeeded(2)
    /\ call[1].op \in AttributeSetters
    /\ call[2].op = call[1].op
    /\ pin[1] # pin[2] )
    => LET reg == RegisterOfAttribute[call[1].op]
           f == ShadowOf(reg)
       IN \A c \in Callers :
            /\ Bit(hw[reg], pin[c]) = AsBit(call[c].arg)
            /\ Bit(cache[f], pin[c]) = AsBit(call[c].arg)

(* ---------------------------------------------------------------------- *)
(* C9                                                                      *)
(* ---------------------------------------------------------------------- *)
CachedGetters ==
  { "get_iodir", "get_inv", "get_pullup", "get_interrupt_enable", "get_three_state",
    "get_rising_edge_interrupt", "get_falling_edge_interrupt", "get_input_filter",
    "direction_get", "invert_polarity_get", "pullup_get", "interrupt_enable_get",
    "three_state_get", "rising_edge_interrupt_get", "falling_edge_interrupt_get",
    "input_filter_get" }

\* C9: a setter of a cached register issues exactly one I2C write and no read;
\* a getter of a cached register, on the controller or on a pin handle, issues
\* no transaction; read_gpio and get_interrupt_status issue exactly one read,
\* of INPUT and of INTERRUPT_STATUS, on every call.
C9_TransactionsPerCall ==
  \A c \in Callers :
    LET t == call[c].txns
        op == call[c].op
    IN /\ (op \in ControllerSetters)
            => /\ Len(t) <= 1
               /\ \A i \in 1..Len(t) : t[i].kind = "w" /\ t[i].reg = RegisterOfSetter[op]
               /\ Finished(c) => Len(t) = 1
       /\ (op \in CachedGetters) => (Finished(c) /\ t = << >>)
       /\ (op \in { "read_gpio", "get_interrupt_status" })
            => /\ Len(t) <= 1
               /\ \A i \in 1..Len(t) :
                    /\ t[i].kind = "r"
                    /\ t[i].reg = (IF op = "read_gpio" THEN REGISTER_INPUT_PORT
                                   ELSE REGISTER_INTERRUPT_STATUS)
               /\ Finished(c) => Len(t) = 1

\* a getter called as the second call, after a live read, still issues nothing
C9_Witness ==
  /\ opsDone = 2
  /\ Finished(1)
  /\ call[1].op = "get_iodir"
  /\ call[1].txns = << >>
  /\ call[1].ret = cache["_configuration"]
  /\ hw[REGISTER_INTERRUPT_STATUS] = 0
  /\ ~ reset

(* ---------------------------------------------------------------------- *)
(* C10                                                                     *)
(* ---------------------------------------------------------------------- *)
\* C10: every public operation of the controller and of a pin handle performs
\* at most one I2C transaction per call, switch_to_output and switch_to_input
\* included.
C10_AtMostOneTransaction ==
  \A c \in Callers : (call[c].op # "__init__") => Len(call[c].txns) <= 1

\* C10, amended: after construction every public operation other than
\* switch_to_output performs at most one I2C transaction per call, and
\* switch_to_output at most two: the write of OUTPUT, then that of
\* CONFIGURATION.
C10_AtMostOneOrTwoTransactions ==
  \A c \in Callers :
    LET t == call[c].txns
    IN (call[c].op # "__init__")
         => IF call[c].op = "switch_to_output"
            THEN /\ Len(t) <= 2
                 /\ (Len(t) = 2) => /\ t[1].reg = REGISTER_OUTPUT_PORT
                                    /\ t[2].reg = REGISTER_CONFIGURATION
            ELSE Len(t) <= 1

C10_Witness ==
  /\ Succeeded(1)
  /\ call[1].op = "switch_to_output"
  /\ Len(call[1].txns) = 2

(* ---------------------------------------------------------------------- *)
(* C11                                                                      *)
(* ---------------------------------------------------------------------- *)
\* the getter of the pin handle that reads back what each setter wrote
GetterOfSetter ==
  [ pullup_set                 |-> "pullup_get",
    invert_polarity_set        |-> "invert_polarity_get",
    interrupt_enable_set       |-> "interrupt_enable_get",
    three_state_set            |-> "three_state_get",
    rising_edge_interrupt_set  |-> "rising_edge_interrupt_get",
    falling_edge_interrupt_set |-> "falling_edge_interrupt_get",
    input_filter_set           |-> "input_filter_get" ]

\* the i-th recorded call read back the attribute the call before it set
\* without error on the same pin
ReadsBack(i) ==
  /\ i > 1
  /\ hist[i - 1].op \in DOMAIN GetterOfSetter
  /\ hist[i - 1].err = ""
  /\ hist[i].op = GetterOfSetter[hist[i - 1].op]
  /\ hist[i].pin = hist[i - 1].pin

\* C11: for each of pullup, invert_polarity, interrupt_enable, three_state,
\* rising_edge_interrupt, falling_edge_interrupt and input_filter, a get that
\* follows a successful set to v on the same pin returns v, whatever the
\* registers held before, and the get issues no I2C transaction.
C11_AttributeRoundTrip ==
  \A i \in 1..Len(hist) :
    ReadsBack(i) =>
      /\ hist[i].err = ""
      /\ hist[i].ret = hist[i - 1].arg
      /\ hist[i].ntxns = 0

\* the input filter of pin 5 was cleared without error and read back as false
C11_Witness ==
  /\ Len(hist) = 3
  /\ ReadsBack(3)
  /\ hist[2].op = "input_filter_set"
  /\ hist[2].arg = FALSE
  /\ hist[3].ret = FALSE
  /\ hist[2].pin = 5

(* ---------------------------------------------------------------------- *)
(* C12                                                                      *)
(* ---------------------------------------------------------------------- *)
\* the direction a CONFIGURATION bit stands for in the hardware
DirectionOfBit(b) == IF b = 1 THEN "INPUT" ELSE "OUTPUT"

\* C12: a direction setter that returned without error has left bit p of
\* CONFIGURATION and of its shadow value at 1 for INPUT and at 0 for OUTPUT;
\* the direction getter returns INPUT exactly when the cached bit p is 1 and
\* issues no transaction; a get that follows a successful set of d on the
\* same pin returns d.
C12_DirectionPolarity ==
  /\ \A c \in Callers :
       (Succeeded(c) /\ call[c].op = "direction_set")
         => /\ DirectionOfBit(Bit(hw[REGISTER_CONFIGURATION], pin[c])) = call[c].arg
            /\ DirectionOfBit(Bit(cache["_configuration"], pin[c])) = call[c].arg
  /\ \A c \in Callers :
       (Finished(c) /\ call[c].op = "direction_get")
         => /\ call[c].ret = DirectionOfBit(Bit(cache["_configuration"], pin[c]))
            /\ call[c].err = ""
            /\ call[c].txns = << >>
  /\ \A i \in 2..Len(hist) :
       ( /\ hist[i - 1].op = "direction_set"
         /\ hist[i - 1].err = ""
         /\ hist[i].op = "direction_get"
         /\ hist[i].pin = hist[i - 1].pin )
         => hist[i].err = "" /\ hist[i].ret = hist[i - 1].arg

\* after a reset (all pins inputs) pin 6 was set to OUTPUT and read back as
\* OUTPUT, then set to INPUT again
C12_Witness ==
  /\ reset
  /\ Len(hist) = 3
  /\ hist[2].op = "direction_set" /\ hist[2].err = "" /\ hist[2].arg = "OUTPUT"
  /\ hist[3].op = "direction_get" /\ hist[3].ret = "OUTPUT"
  /\ hist[3].pin = 6
  /\ Succeeded(1) /\ call[1].op = "direction_set" /\ call[1].arg = "INPUT"

(* ---------------------------------------------------------------------- *)
(* C13                                                                      *)
(* ---------------------------------------------------------------------- *)
\* the recorded calls i-2, i-1 and i are a direction set to OUTPUT, a value
\* set and a value get of one pin, all returned without error
OutputThenValueThenRead(i) ==
  /\ i > 2
  /\ hist[i - 2].op = "direction_set" /\ hist[i - 2].err = ""
  /\ hist[i - 2].arg = "OUTPUT"
  /\ hist[i - 1].op = "value_set" /\ hist[i - 1].err = ""
  /\ hist[i].op = "value_get" /\ hist[i].err = ""
  /\ hist[i].pin = hist[i - 1].pin
  /\ hist[i].pin = hist[i - 2].pin

\* C13: on a chip whose output pins read back their latch, with the inversion
\* bit of pin p clear: after the direction of p was set to OUTPUT and its
\* value to v, a value get (one live read of the INPUT register) returns v,
\* whatever the registers hold for the other pins.
C13_OutputValueReadsBack ==
  \A i \in 1..Len(hist) :
    ( /\ OutputThenValueThenRead(i)
      /\ Bit(hw[REGISTER_INVERSION], hist[i].pin) = 0 )
      => /\ hist[i].ret = hist[i - 1].arg
         /\ hist[i].ntxns = 1

\* without reset, on a chip where the external level of pin 2 is high and
\* other pins are inverted: pin 2 set to OUTPUT, driven low and read back low
C13_Witness ==
  /\ ~ reset
  /\ Len(hist) = 4
  /\ OutputThenValueThenRead(4)
  /\ hist[4].pin = 2
  /\ hist[3].arg = FALSE
  /\ hist[4].ret = FALSE
  /\ Bit(hw[REGISTER_INVERSION], 2) = 0
  /\ hw[REGISTER_INVERSION] # 0
  /\ Bit(hw[REGISTER_INPUT_PORT], 2) = 1

(* ---------------------------------------------------------------------- *)
(* C14                                                                      *)
(* ---------------------------------------------------------------------- *)
\* the call changed neither a register of the chip nor a shadow value
NothingTouched(c) ==
  /\ call[c].txns = << >>
  /\ cache = call[c].preCache
  /\ hw = call[c].preHw

\* C14: get_pin with an index outside 0..7 raises on the argument (the
\* assertion fails), so no handle is returned, no I2C transaction was issued
\* and every shadow value is as before the call; with an index in 0..7 it
\* returns the handle of that pin.
C14_GetPinRange ==
  \A c \in Callers :
    (Finished(c) /\ call[c].op = "get_pin")
      => IF call[c].arg \in Pins
         THEN call[c].err = "" /\ call[c].ret = call[c].arg
         ELSE call[c].err = "AssertionError" /\ NothingTouched(c)

\* get_pin(8) has raised
C14_Witness ==
  /\ Finished(1)
  /\ call[1].op = "get_pin"
  /\ call[1].arg = 8
  /\ call[1].err # ""
  /\ opsDone = 2

(* ---------------------------------------------------------------------- *)
(* C15                                                                      *)
(* ---------------------------------------------------------------------- *)
\* C15: a direction setter given anything but INPUT or OUTPUT raises
\* ValueError without an I2C transaction; CONFIGURATION and the shadow values
\* are as before the call.
C15_BadDirectionRejected ==
  \A c \in Callers :
    ( /\ Finished(c)
      /\ call[c].op = "direction_set"
      /\ call[c].arg \notin { "INPUT", "OUTPUT" } )
      => call[c].err = "ValueError" /\ NothingTouched(c)

\* the direction of an input pin was set to something that is no direction
C15_Witness ==
  /\ Finished(1)
  /\ call[1].op = "direction_set"
  /\ call[1].arg = "NEITHER"
  /\ call[1].err = "ValueError"
  /\ Bit(hw[REGISTER_CONFIGURATION], pin[1]) = 1

(* ---------------------------------------------------------------------- *)
(* C16                                                                      *)
(* ---------------------------------------------------------------------- *)
\* C16: an interrupt_status read through the handle of any pin that returned
\* without error has issued one read of the INTERRUPT_STATUS register, has
\* returned the bit latched for its pin, and has left the latched status of
\* all eight pins clear; the next interrupt_status read, through the handle
\* of whatever pin, returns false.
C16_StatusReadClearsAllPins ==
  /\ \A c \in Callers :
       (Succeeded(c) /\ call[c].op = "interrupt_status_get")
         => /\ call[c].txns = << Txn("r", REGISTER_INTERRUPT_STATUS,
                                     call[c].preHw[REGISTER_INTERRUPT_STATUS], TRUE) >>
            /\ call[c].ret = (Bit(call[c].preHw[REGISTER_INTERRUPT_STATUS], pin[c]) = 1)
            /\ hw[REGISTER_INTERRUPT_STATUS] = 0
  /\ \A i \in 2..Len(hist) :
       ( /\ hist[i - 1].op = "interrupt_status_get" /\ hist[i - 1].err = ""
         /\ hist[i].op = "interrupt_status_get" /\ hist[i].err = "" )
         => hist[i].ret = FALSE

\* the chip had latched pins 1, 2 and 7: the read through the handle of pin 1
\* returned true, the read through the handle of pin 7 that followed false
C16_Witness ==
  /\ Len(hist) = 3
  /\ hist[2].op = "interrupt_status_get" /\ hist[2].err = ""
  /\ hist[2].pin = 1 /\ hist[2].ret = TRUE
  /\ hist[3].op = "interrupt_status_get" /\ hist[3].err = ""
  /\ hist[3].pin = 7 /\ hist[3].ret = FALSE
  /\ hist[3].caller # hist[2].caller

(* ---------------------------------------------------------------------- *)
(* C17                                                                      *)
(* ---------------------------------------------------------------------- *)
\* the locations inside a with self.i2c_device block
InSession == { "reset_write", "sync_read", "write", "read" }

\* C17: a caller holds the bus exactly while it is inside a with block
\* around its register access: before the access and once the access is
\* over, whether the transaction went through or raised, the caller does not
\* hold the bus, and a caller that has returned leaves the bus free for the
\* other; two callers are never inside a with block at the same time, so the
\* transactions of one session are not interleaved with another caller's.
C17_BusHeldOnlyInSession ==
  /\ \A c \in Callers : (busOwner = c) <=> (pc[c] \in InSession)
  /\ Cardinality({ c \in Callers : pc[c] \in InSession }) <= 1
  /\ (\A c \in Callers : pc[c] \in { "idle", "done" }) => busOwner = 0

\* the method of caller 1 raised a transport error and left its with block;
\* caller 2 has taken the bus for its own write
C17_Witness ==
  /\ Finished(1)
  /\ call[1].op # "__init__"
  /\ call[1].err = "TransportError"
  /\ pc[2] = "write"
  /\ busOwner = 2

(* ---------------------------------------------------------------------- *)
(* C18                                                                      *)
(* ---------------------------------------------------------------------- *)
\* C18: a finished write_pin(pin, val) has, like the value setter of the
\* handle of that pin, returned without error after one write to the OUTPUT
\* register of the cached OUTPUT byte with only bit pin changed, and the
\* shadow value of OUTPUT is the byte written.
C18_WritePinLikeValueSetter ==
  \A c \in Callers :
    (Finished(c) /\ call[c].op = "write_pin")
      => /\ call[c].err = ""
         /\ Len(call[c].txns) = 1
         /\ call[c].txns[1].kind = "w"
         /\ call[c].txns[1].reg = REGISTER_OUTPUT_PORT
         /\ SameExceptBit(call[c].txns[1].data, call[c].preCache["_output"], call[c].arg)
         /\ cache["_output"] = call[c].txns[1].data

(* ---------------------------------------------------------------------- *)
(* C19                                                                      *)
(* ---------------------------------------------------------------------- *)
\* C19: in every reachable state each shadow value, each register of the
\* chip and the data byte of each transaction is in 0..255; a controller
\* setter that returned without error has cached and written its argument
\* modulo 256, also when the argument is negative or above 255.
C19_BytesInRange ==
  /\ \A f \in Fields : cache[f] \in 0..255
  /\ \A r \in Regs : hw[r] \in 0..255
  /\ \A c \in Callers : \A i \in 1..Len(call[c].txns) : call[c].txns[i].data \in 0..255
  /\ \A c \in Callers :
       (Succeeded(c) /\ call[c].op \in ControllerSetters)
         => LET f == ShadowOf(RegisterOfSetter[call[c].op])
            IN /\ cache[f] = call[c].arg % 256
               /\ call[c].txns[1].data = call[c].arg % 256

\* set_iodir(-256) cached and wrote 0 where the cached direction byte had
\* some pins as inputs and some as outputs
C19_Witness ==
  /\ Succeeded(1)
  /\ call[1].op = "set_iodir"
  /\ call[1].arg = -256
  /\ call[1].preCache["_configuration"] \notin { 0, 255 }
  /\ cache["_configuration"] = 0
  /\ call[1].txns[1].data = 0
====
